---- MODULE Spec2Model ----
(***************************************************************************)
(* The QR attendance-session protocol of db_manager.py: DatabaseManager's  *)
(* start_qr_session, get_active_qr_session, scan_qr_code and               *)
(* stop_qr_session over the Class, Enrollment and QRSession records kept   *)
(* by the FileBackend or the MongoDBBackend.                               *)
(*                                                                         *)
(* One class ("c1") and one session key (class c1, date d1) are modelled;  *)
(* a second date d2 holds attendance that no modelled call addresses.      *)
(* Timestamps are whole seconds of a clock `now`; datetime.utcnow() read   *)
(* several times inside one handler is one reading of `now`.               *)
(***************************************************************************)
EXTENDS Integers, Sequences, FiniteSets, TLC

\* ------------------------------------------------------------- bounds
\* The clock runs from 0 to MaxTime.
MaxTime == 1
\* start is not called once the next session number would exceed MaxSessions.
MaxSessions == 3
\* The MongoDB collection holds at most MaxDocs documents for the key.
MaxDocs == 2
\* The workers of the interleaved specification begin at most MaxCalls calls.
MaxCalls == 3

\* ------------------------------------------------------------- values
Teachers == {"t1", "t2"}
Owner == "t1"
\* Codes the generator can draw (8 characters of A-Z0-9 in the source).
Codes == {"AAAAAAA1", "AAAAAAA2"}
\* A code the generator never draws here, for a scan with a wrong code.
WrongCode == "ZZZZZZZ9"
RotationIntervals == {1}
Dates == {"d1", "d2"}
Date == "d1"
OtherDate == "d2"
\* Users that submit scans, and the student records of the class.
Users == {"u1", "u2", "u3", "u4", "u5"}
Absent == -1

\* ------------------------------------------------------ attendance entry
\* student['attendance'].get(date): None, a str, a dict with 'sessions',
\* or a dict with 'status' (and 'count'); one record shape for all four.
NoEntry == [kind |-> "none", mark |-> "-", sessions |-> << >>, count |-> 0]
Scalar(m) == [kind |-> "str", mark |-> m, sessions |-> << >>, count |-> 0]
Structured(s) == [kind |-> "sessions", mark |-> "-", sessions |-> s, count |-> 0]
StatusDict(st, c) == [kind |-> "status", mark |-> st, sessions |-> << >>, count |-> c]
\* {"id": "session_i", "name": "QR Session i", "status": st}; the name is a
\* function of the id, and the id is kept as the number i.
SessionMark(i, st) == [id |-> i, status |-> st]

Max(a, b) == IF a >= b THEN a ELSE b
Min(a, b) == IF a <= b THEN a ELSE b

\* A variant of list.insert that puts x in front whatever idx is.  C12
\* depends on the insertion at index i - 1.
ListInsertFirst(s, idx, x) == << x >> \o s

\* list.insert(idx, x) of Python, idx counted from 0: an index past the end
\* appends.
ListInsert(s, idx, x) ==
    LET k == Min(idx, Len(s))
    IN  SubSeq(s, 1, k) \o << x >> \o SubSeq(s, k + 1, Len(s))

\* {s.get('id') for s in sessions}
ExistingIds(s) == { s[k].id : k \in 1..Len(s) }

\* for session in sessions: if session.get('id') == session_id:
\*     session['status'] = 'P'; break      (the first match only)
SetFirstStatus(s, sid, st) ==
    IF sid \notin ExistingIds(s) THEN s
    ELSE LET k == CHOOSE j \in 1..Len(s) :
                    /\ s[j].id = sid
                    /\ \A h \in 1..(j - 1) : s[h].id # sid
         IN  [s EXCEPT ![k].status = st]

\* len([s for s in sessions if s.get('status') is not None])
RECURSIVE CountNonNull(_)
CountNonNull(s) ==
    IF s = << >> THEN 0
    ELSE (IF Head(s).status # "null" THEN 1 ELSE 0) + CountNonNull(Tail(s))

\* One student's contribution to max_sessions (lines 654-665).
EntryCount(e) ==
    CASE e.kind = "sessions" -> CountNonNull(e.sessions)
      [] e.kind = "status" -> IF e.mark # "null" THEN e.count ELSE 0
      [] e.kind = "str" -> 1
      [] OTHER -> 0

\* A variant of the loop of lines 648-665 that adds the students' counts up.
\* C21 depends on max().
RECURSIVE SumCount(_, _)
SumCount(students, date) ==
    IF students = << >> THEN 0
    ELSE EntryCount(Head(students).attendance[date])
            + SumCount(Tail(students), date)

RECURSIVE MaxCount(_, _)
MaxCount(students, date) ==
    IF students = << >> THEN 0
    ELSE Max(EntryCount(Head(students).attendance[date]),
             MaxCount(Tail(students), date))

\* A variant of _count_valid_sessions_for_date without the branch of line
\* 664: a scalar entry counts for nothing.  C5 depends on that branch.
count_without_scalar_entries(class_data, date) ==
    IF \A k \in 1..Len(class_data.students) :
           class_data.students[k].attendance[date].kind \in {"str", "none"}
    THEN 0
    ELSE MaxCount(class_data.students, date)

\* _count_valid_sessions_for_date(class_data, date)
count_valid_sessions_for_date(class_data, date) ==
    IF class_data.students = << >> THEN 0
    ELSE MaxCount(class_data.students, date)

\* A variant of the list built at lines 800-806 and 896-902 that holds the
\* mark of session n alone.  C10 depends on the marks of sessions 1..n-1.
BuildLastSessionOnly(current, n, mark) == << SessionMark(n, mark) >>

\* A variant of the list built at lines 800-806 and 896-902 that gives
\* session_1 the default mark whatever the entry was.  C22 depends on the
\* prior scalar being kept as the status of session_1.
BuildSessionsAnew(current, n, mark) ==
    [i \in 1..n |-> SessionMark(i, IF i = n THEN mark ELSE "A")]

\* The sessions list built from a str or None entry (lines 800-806 for a
\* scan, mark "P"; lines 896-902 for stop, mark "A").
BuildSessions(current, n, mark) ==
    [i \in 1..n |->
        SessionMark(i, IF i = 1 /\ current.kind = "str" THEN current.mark
                       ELSE IF i = n THEN mark ELSE "A")]

\* The loop of lines 815-827 (scan): insert the missing session_i, and set
\* the status of an existing session_n to 'P'.
RECURSIVE ScanLoop(_, _, _, _)
ScanLoop(s, existing, i, n) ==
    IF i > n THEN s
    ELSE IF i \notin existing
         THEN ScanLoop(ListInsert(s, i - 1,
                           SessionMark(i, IF i = n THEN "P" ELSE "A")),
                       existing, i + 1, n)
         ELSE IF i = n
              THEN ScanLoop(SetFirstStatus(s, i, "P"), existing, i + 1, n)
              ELSE ScanLoop(s, existing, i + 1, n)

\* A variant of the loop of lines 911-918 that also sets the status of an
\* existing session_n to 'A', as the scan loop sets it to 'P'.  C24 depends
\* on the stop loop having no such branch.
RECURSIVE StopLoopOverwriting(_, _, _, _)
StopLoopOverwriting(s, existing, i, n) ==
    IF i > n THEN s
    ELSE IF i \notin existing
         THEN StopLoopOverwriting(ListInsert(s, i - 1, SessionMark(i, "A")),
                                  existing, i + 1, n)
         ELSE IF i = n
              THEN StopLoopOverwriting(SetFirstStatus(s, i, "A"),
                                       existing, i + 1, n)
              ELSE StopLoopOverwriting(s, existing, i + 1, n)

\* The loop of lines 911-918 (stop): insert the missing session_i with 'A'.
RECURSIVE StopLoop(_, _, _, _)
StopLoop(s, existing, i, n) ==
    IF i > n THEN s
    ELSE IF i \notin existing
         THEN StopLoop(ListInsert(s, i - 1, SessionMark(i, "A")),
                       existing, i + 1, n)
         ELSE StopLoop(s, existing, i + 1, n)

\* scan_qr_code, lines 794-832: the entry after a scan of session n.
ScanEntry(current, n) ==
    IF n = 1 THEN Scalar("P")
    ELSE IF current.kind \in {"str", "none"}
         THEN Structured(BuildSessions(current, n, "P"))
         ELSE IF current.kind = "sessions"
              THEN Structured(ScanLoop(current.sessions,
                                       ExistingIds(current.sessions), 1, n))
              ELSE current

\* stop_qr_session, lines 892-923: the entry of an unscanned student after
\* the stop of session n.
StopEntry(current, n) ==
    IF n = 1 THEN Scalar("A")
    ELSE IF current.kind \in {"str", "none"}
         THEN Structured(BuildSessions(current, n, "A"))
         ELSE IF current.kind = "sessions"
              THEN Structured(StopLoop(current.sessions,
                                       ExistingIds(current.sessions), 1, n))
              ELSE current

\* ------------------------------------------------------------ records
\* The class's students, in list order, and the enrollments of the class.
RecordIds == << "r1", "r2", "r3" >>

\* get_enrollments(class_id): (student_id, student_record_id, status).
\* u4's record r4 is not in the class; u5 has no enrollment.
Enrollment(u, r, st) == [student_id |-> u, student_record_id |-> r, status |-> st]

EnrollmentTables ==
    { << Enrollment("u1", "r1", st), Enrollment("u2", "r2", st),
         Enrollment("u3", "r3", "dropped"), Enrollment("u4", "r4", "active") >>
      : st \in {"active", "dropped"} }

\* The attendance of date d1 found in the class when the model starts: what
\* the entries of lines 654-665 can be before any QR session of the date.
InitialAttendance ==
    { [r \in {"r1", "r2", "r3"} |-> NoEntry],
      [r \in {"r1", "r2", "r3"} |-> IF r = "r1" THEN Scalar("P") ELSE Scalar("A")],
      [r \in {"r1", "r2", "r3"} |->
          Structured(<< SessionMark(1, IF r = "r1" THEN "P" ELSE "A"),
                        SessionMark(2, "null") >>)],
      [r \in {"r1", "r2", "r3"} |->
          IF r = "r1" THEN Structured(<< SessionMark(1, "null") >>) ELSE NoEntry],
      [r \in {"r1", "r2", "r3"} |->
          IF r = "r1" THEN StatusDict("P", 1) ELSE Scalar("A")] }

Student(r, e) == [id |-> r, attendance |-> [d \in Dates |-> IF d = Date THEN e ELSE Scalar("P")]]

\* A QRSession document; class_id and date are its key.  Optional fields
\* (last_scan_at, stopped_at, updated_at) hold Absent until first written.
NoSession ==
    [status |-> "none", teacher_id |-> "-", session_number |-> 0,
     started_at |-> Absent, rotation_interval |-> 0, current_code |-> "-",
     code_generated_at |-> Absent, scanned_students |-> << >>,
     last_scan_at |-> Absent, stopped_at |-> Absent, updated_at |-> Absent]

OptionalFields == {"last_scan_at", "stopped_at", "updated_at"}

VARIABLES
    backend_type,   \* "file" or "mongodb" (DatabaseManager.__init__)
    class_store,    \* the Class record of c1
    enrollments,    \* the enrollment records of c1
    qr_sessions,    \* the QRSession documents stored for (c1, d1), oldest first
    now,            \* datetime.utcnow(), in seconds
    last,           \* the call that ended last and what it returned or raised
    workers,        \* the request handlers in flight: position and locals
    serialized,     \* TRUE when the caller runs one call of the key at a time
    calls           \* the number of calls begun by the workers

vars == << backend_type, class_store, enrollments, qr_sessions, now, last,
           workers, serialized, calls >>

store_vars == << backend_type, class_store, enrollments, qr_sessions >>
worker_vars == << workers, serialized, calls >>

\* ------------------------------------------------------------ the Store
\* The text of a stored record that json.load cannot parse (a truncated or
\* damaged file); its status field stands for the whole unreadable text.
Unreadable(doc) == [doc EXCEPT !.status = "unreadable"]

\* FileBackend._read_json: None when the file is missing and, by the
\* except clause of lines 333-335, also when reading or parsing it fails.
read_json(content) ==
    IF content.status = "unreadable" THEN NoSession ELSE content

\* FileBackend.get_qr_session / MongoDBBackend.get_qr_session: the file of
\* the key read by _read_json, or find_one on the key, which returns the
\* first document stored (no document of the collection is unreadable).
get_qr_session(docs) == IF docs = << >> THEN NoSession ELSE read_json(docs[1])

\* FileBackend.create_qr_session writes the file of the key;
\* MongoDBBackend.create_qr_session inserts one more document.
create_qr_session(backend, docs, session_data) ==
    IF backend = "file" THEN << session_data >> ELSE Append(docs, session_data)

\* update_one(..., {"$set": session_data}): the fields of session_data
\* replace those of the document, its other fields stay.
SetFields(doc, session_data) ==
    [f \in DOMAIN doc |->
        IF f \in OptionalFields /\ session_data[f] = Absent
        THEN doc[f] ELSE session_data[f]]

\* FileBackend.update_qr_session rewrites the file; the MongoDB one updates
\* the first matching document, inserting when there is none (upsert).
update_qr_session(backend, docs, session_data, t) ==
    LET data == [session_data EXCEPT !.updated_at = t]
    IN  IF backend = "file" \/ docs = << >> THEN << data >>
        ELSE [docs EXCEPT ![1] = SetFields(docs[1], data)]

\* get_class: the record, or None (present = FALSE).
get_class(store) == store

\* update_class: the whole record is written (a $set of every field).
update_class(store, class_data) == IF store.present THEN class_data ELSE store

NoClass == [present |-> FALSE, teacher_id |-> "-", enrollment_mode |-> "-", students |-> << >>]

\* ----------------------------------------------------- handler pieces
\* _generate_qr_code(): random.choices draws any code, the current one too.
generate_qr_code == Codes

\* The scan payload as the caller sent it: a bare code string, a JSON
\* object {"code": text}, a JSON object without "code", or a JSON string
\* literal (the text in double quotes).
Payloads ==
    { [shape |-> "bare", text |-> c] : c \in Codes \cup {WrongCode} }
    \cup { [shape |-> sh, text |-> c] :
              sh \in {"object", "object_nocode", "quoted"},
              c \in {"AAAAAAA1"} }

\* A variant of the decoding of lines 744-748 that also takes the text of
\* a JSON string literal for the code.  C20 depends on the raw input being
\* kept for a JSON value that is not an object.
QrCodeValueUnquoted(payload) ==
    IF payload.shape \in {"bare", "object", "quoted"}
    THEN [shape |-> "bare", text |-> payload.text]
    ELSE [shape |-> "none", text |-> "-"]

\* Lines 744-748: json.loads(qr_code), then qr_data.get("code"); any
\* exception (no JSON, or a JSON value without .get) keeps the raw input.
\* A Python str is the pair (shape of its characters, text); None is "none".
QrCodeValue(payload) ==
    CASE payload.shape = "bare" -> [shape |-> "bare", text |-> payload.text]
      [] payload.shape = "object" -> [shape |-> "bare", text |-> payload.text]
      [] payload.shape = "object_nocode" -> [shape |-> "none", text |-> "-"]
      [] OTHER -> payload

\* A variant of the comparison of line 750 that looks at the text between
\* the quotes and not at the whole decoded value.  C4 depends on the
\* comparison of the whole value.
CodeMatchesText(session_data, payload) ==
    QrCodeValue(payload).text = session_data.current_code

\* session_data.get("current_code") != qr_code_value, negated.
CodeMatches(session_data, payload) ==
    QrCodeValue(payload) = [shape |-> "bare", text |-> session_data.current_code]

\* A variant of the handlers' test that accepts every session that exists,
\* whatever its status.  C7 depends on the comparison with "active".
SessionExists(session_data) == session_data.status # "none"

\* The handlers' test of the session they read:
\* not (not session_data or session_data.get("status") != "active").
IsActive(session_data) == session_data.status = "active"

\* Lines 692-703: the session start creates.
NewSession(teacher_id, session_number, rotation_interval, code, t) ==
    [status |-> "active", teacher_id |-> teacher_id,
     session_number |-> session_number, started_at |-> t,
     rotation_interval |-> rotation_interval, current_code |-> code,
     code_generated_at |-> t, scanned_students |-> << >>,
     last_scan_at |-> Absent, stopped_at |-> Absent, updated_at |-> Absent]

\* Lines 719-722: elapsed >= session_data["rotation_interval"].
RotationDue(session_data, t) ==
    t - session_data.code_generated_at >= session_data.rotation_interval

\* A variant of the rotation that also empties scanned_students.  C9
\* depends on the rotation keeping the rest of the session it read.
RotatedEmptySession(session_data, code, t) ==
    [session_data EXCEPT !.current_code = code, !.code_generated_at = t,
                         !.scanned_students = << >>]

\* A variant of the rotation that also takes the time of the read for
\* started_at.  C27 depends on the rotation assigning the two code fields
\* alone.
RotatedRestartedSession(session_data, code, t) ==
    [session_data EXCEPT !.current_code = code, !.code_generated_at = t,
                         !.started_at = t]

\* Lines 723-724.
RotatedSession(session_data, code, t) ==
    [session_data EXCEPT !.current_code = code, !.code_generated_at = t]

\* Lines 758-762: the first enrollment of the student with status active.
ActiveEnrollmentIndex(all_enrollments, student_id) ==
    { k \in 1..Len(all_enrollments) :
        /\ all_enrollments[k].student_id = student_id
        /\ all_enrollments[k].status = "active" }

FirstOf(S) == CHOOSE k \in S : \A j \in S : k <= j

\* A variant of the search of lines 778-782 that takes every record for a
\* match.  C14 depends on the comparison of the ids.
RecordIndexAny(students, student_record_id) == 1..Len(students)

\* Lines 778-782: the first student record with the id.
RecordIndex(students, student_record_id) ==
    { k \in 1..Len(students) : students[k].id = student_record_id }

\* Lines 791-832: the class with the scanning student's entry rewritten.
ScanClass(class_data, student_record_id, date, n) ==
    LET k == FirstOf(RecordIndex(class_data.students, student_record_id))
    IN  [class_data EXCEPT !.students[k].attendance[date] = ScanEntry(@, n)]

\* A variant of lines 838-842 that replaces scanned_students by the one
\* scanning student.  C8 depends on the append to the list that was read.
ScanSessionAlone(session_data, student_record_id, t) ==
    [session_data EXCEPT !.scanned_students = << student_record_id >>,
                         !.last_scan_at = t]

\* A variant of lines 838-842 that also takes the time of the scan for
\* code_generated_at.  C26 depends on the scan leaving the code alone.
ScanSessionRenewingCode(session_data, student_record_id, t) ==
    [session_data EXCEPT
        !.scanned_students =
            IF \E k \in 1..Len(@) : @[k] = student_record_id
            THEN @ ELSE Append(@, student_record_id),
        !.last_scan_at = t, !.code_generated_at = t]

\* Lines 838-842.
ScanSession(session_data, student_record_id, t) ==
    LET scanned == session_data.scanned_students
    IN  [session_data EXCEPT
            !.scanned_students =
                IF \E k \in 1..Len(scanned) : scanned[k] = student_record_id
                THEN scanned ELSE Append(scanned, student_record_id),
            !.last_scan_at = t]

\* Lines 866 and 872-876.
ScannedIds(session_data) ==
    { session_data.scanned_students[k] :
        k \in 1..Len(session_data.scanned_students) }

\* A variant of lines 872-876 without the test of the status: the record
\* ids of all the enrollments.  C31 depends on that test.
EnrolledStudentIds(all_enrollments) ==
    { all_enrollments[k].student_record_id : k \in 1..Len(all_enrollments) }

ActiveStudentIds(all_enrollments) ==
    { all_enrollments[k].student_record_id :
        k \in { j \in 1..Len(all_enrollments) : all_enrollments[j].status = "active" } }

\* A variant of the test of line 886 without the active enrollments: every
\* unscanned student is swept.  C16 depends on the test of the enrollment.
SweptUnscanned(class_data, active_student_ids, scanned_ids) ==
    { k \in 1..Len(class_data.students) :
        class_data.students[k].id \notin scanned_ids }

\* A variant of the test of line 886 without scanned_ids: every actively
\* enrolled student is swept.  C28 depends on the sweep leaving the scanned
\* students out.
SweptActive(class_data, active_student_ids, scanned_ids) ==
    { k \in 1..Len(class_data.students) :
        class_data.students[k].id \in active_student_ids }

\* Line 886: the students the sweep of stop visits.
Swept(class_data, active_student_ids, scanned_ids) ==
    { k \in 1..Len(class_data.students) :
        /\ class_data.students[k].id \in active_student_ids
        /\ class_data.students[k].id \notin scanned_ids }

\* Lines 884-925: the class after the sweep.
SweepClass(class_data, active_student_ids, scanned_ids, date, n) ==
    [class_data EXCEPT !.students =
        [k \in 1..Len(class_data.students) |->
            IF k \in Swept(class_data, active_student_ids, scanned_ids)
            THEN [class_data.students[k] EXCEPT
                     !.attendance[date] = StopEntry(@, n)]
            ELSE class_data.students[k]]]

\* Lines 931-932.
StoppedSession(session_data, t) ==
    [session_data EXCEPT !.status = "stopped", !.stopped_at = t]

\* What a call returned or raised: the fields of the returned dict that the
\* call sets, and for a successful scan whether the student had already
\* been recorded in scanned_students (repeat).
Result(op, err) ==
    [op |-> op, err |-> err, session_number |-> 0, code |-> "-",
     scanned_count |-> 0, absent_count |-> 0, repeat |-> FALSE]

\* A request handler running a call step by step: pc is the Store access it
\* performs next, the other fields are its arguments, its local variables
\* and, once it has returned, what it returned.
Workers == {"w1", "w2"}

IdleWorker ==
    [pc |-> "idle", op |-> "none", err |-> "ok", student_id |-> "-",
     teacher_id |-> "-", code |-> "-", student_record_id |-> "-",
     session_data |-> NoSession, class_data |-> NoClass,
     session_number |-> 0, code_generated_at |-> Absent, rotated |-> FALSE,
     scanned_count |-> 0]

\* -------------------------------------------------------------- Init
Init ==
    /\ backend_type \in {"file", "mongodb"}
    /\ \E att \in InitialAttendance :
         class_store \in
            { NoClass } \cup
            { [present |-> TRUE, teacher_id |-> Owner, enrollment_mode |-> m,
               students |-> [k \in 1..Len(RecordIds) |->
                                Student(RecordIds[k], att[RecordIds[k]])]]
              : m \in {"enrollment_via_id", "manual_entry"} }
    /\ enrollments \in EnrollmentTables
    /\ qr_sessions = << >>
    /\ now = 0
    /\ last = Result("none", "ok")
    /\ workers = [w \in Workers |-> IdleWorker]
    /\ serialized = TRUE
    /\ calls = 0

\* ------------------------------------------------- the calls, one at a time
\* Each handler is an operator from the stored Class and QRSession documents
\* (and its arguments) to what it leaves stored and what it returns or
\* raises; backend_type, enrollments and now are read, never written.
Outcome(class, docs, result) ==
    [class_store |-> class, qr_sessions |-> docs, last |-> result]

\* A variant of start_qr_session without the comparison of teacher_id at
\* line 676.  C13 depends on that comparison.
start_for_any_teacher(class, docs, teacher_id, rotation_interval, code) ==
    LET class_data == get_class(class)
        session_number == count_valid_sessions_for_date(class_data, Date) + 1
    IN  IF class_data.enrollment_mode # "enrollment_via_id"
        THEN Outcome(class, docs, Result("start", "QR attendance is only available"))
        ELSE IF IsActive(get_qr_session(docs))
        THEN Outcome(class, docs,
                     Result("start", "There is already an active QR session"))
        ELSE Outcome(class,
                     create_qr_session(backend_type, docs,
                         NewSession(teacher_id, session_number,
                                    rotation_interval, code, now)),
                     [Result("start", "ok") EXCEPT
                         !.session_number = session_number, !.code = code])

\* start_qr_session(class_id, teacher_id, date, rotation_interval); code is
\* the draw of _generate_qr_code().
start_qr_session(class, docs, teacher_id, rotation_interval, code) ==
    LET class_data == get_class(class)
        valid_session_count == count_valid_sessions_for_date(class_data, Date)
        existing_session == get_qr_session(docs)
        session_number == valid_session_count + 1
        qr_session_data ==
            NewSession(teacher_id, session_number, rotation_interval, code, now)
    IN  IF ~class_data.present \/ class_data.teacher_id # teacher_id
        THEN Outcome(class, docs, Result("start", "Class not found or unauthorized"))
        ELSE IF class_data.enrollment_mode # "enrollment_via_id"
        THEN Outcome(class, docs, Result("start", "QR attendance is only available"))
        ELSE IF IsActive(existing_session)
        THEN Outcome(class, docs,
                     Result("start", "There is already an active QR session"))
        ELSE Outcome(class,
                     create_qr_session(backend_type, docs, qr_session_data),
                     [Result("start", "ok") EXCEPT
                         !.session_number = session_number, !.code = code])

\* get_active_qr_session(class_id, date); code is the draw of a rotation.
get_active_qr_session(class, docs, code) ==
    LET session_data == get_qr_session(docs)
    IN  IF ~IsActive(session_data)
        THEN Outcome(class, docs, Result("getActive", "None"))
        ELSE IF RotationDue(session_data, now)
        THEN Outcome(class,
                     update_qr_session(backend_type, docs,
                         RotatedSession(session_data, code, now), now),
                     [Result("getActive", "ok") EXCEPT
                         !.code = code,
                         !.session_number = session_data.session_number])
        ELSE Outcome(class, docs,
                     [Result("getActive", "ok") EXCEPT
                         !.code = session_data.current_code,
                         !.session_number = session_data.session_number])

\* scan_qr_code(student_id, class_id, qr_code, date)
scan_qr_code(class, docs, student_id, qr_code) ==
    LET session_data == get_qr_session(docs)
        qr_session_number == session_data.session_number
        found == ActiveEnrollmentIndex(enrollments, student_id)
        student_record_id == enrollments[FirstOf(found)].student_record_id
        class_data == get_class(class)
    IN  IF ~IsActive(session_data)
        THEN Outcome(class, docs, Result("scan", "No active QR session"))
        ELSE IF ~CodeMatches(session_data, qr_code)
        THEN Outcome(class, docs, Result("scan", "Invalid or expired QR code"))
        ELSE IF found = {}
        THEN Outcome(class, docs,
                     Result("scan", "Student not actively enrolled in this class"))
        ELSE IF ~class_data.present
        THEN Outcome(class, docs, Result("scan", "Class not found"))
        ELSE IF RecordIndex(class_data.students, student_record_id) = {}
        THEN Outcome(class, docs, Result("scan", "Student record not found"))
        ELSE Outcome(update_class(class,
                         ScanClass(class_data, student_record_id, Date,
                                   qr_session_number)),
                     update_qr_session(backend_type, docs,
                         ScanSession(session_data, student_record_id, now), now),
                     [Result("scan", "ok") EXCEPT
                         !.session_number = qr_session_number,
                         !.repeat = student_record_id \in ScannedIds(session_data)])

\* A variant of stop_qr_session without the comparison of teacher_id at
\* line 862.  C15 depends on that comparison.
stop_for_any_teacher(class, docs, teacher_id) ==
    LET session_data == get_qr_session(docs)
        swept == Swept(get_class(class), ActiveStudentIds(enrollments),
                       ScannedIds(session_data))
    IN  IF ~IsActive(session_data)
        THEN Outcome(class, docs, Result("stop", "No active session"))
        ELSE Outcome(update_class(class,
                         SweepClass(get_class(class), ActiveStudentIds(enrollments),
                                    ScannedIds(session_data), Date,
                                    session_data.session_number)),
                     update_qr_session(backend_type, docs,
                         StoppedSession(session_data, now), now),
                     [Result("stop", "ok") EXCEPT
                         !.session_number = session_data.session_number,
                         !.scanned_count = Cardinality(ScannedIds(session_data)),
                         !.absent_count = Cardinality(swept)])

\* stop_qr_session(class_id, teacher_id, date); with the class record
\* absent, class_data.get of line 880 raises AttributeError.
stop_qr_session(class, docs, teacher_id) ==
    LET session_data == get_qr_session(docs)
        qr_session_number == session_data.session_number
        scanned_ids == ScannedIds(session_data)
        active_student_ids == ActiveStudentIds(enrollments)
        class_data == get_class(class)
        marked_absent ==
            Cardinality(Swept(class_data, active_student_ids, scanned_ids))
    IN  IF ~IsActive(session_data)
        THEN Outcome(class, docs, Result("stop", "No active session"))
        ELSE IF session_data.teacher_id # teacher_id
        THEN Outcome(class, docs, Result("stop", "Unauthorized"))
        ELSE IF ~class_data.present
        THEN Outcome(class, docs, Result("stop", "AttributeError"))
        ELSE Outcome(update_class(class,
                         SweepClass(class_data, active_student_ids,
                                    scanned_ids, Date, qr_session_number)),
                     update_qr_session(backend_type, docs,
                         StoppedSession(session_data, now), now),
                     [Result("stop", "ok") EXCEPT
                         !.session_number = qr_session_number,
                         !.scanned_count = Cardinality(scanned_ids),
                         !.absent_count = marked_absent])

\* A call runs to its end and leaves its outcome.
Apply(o) ==
    /\ class_store' = o.class_store
    /\ qr_sessions' = o.qr_sessions
    /\ last' = o.last
    /\ UNCHANGED << backend_type, enrollments, now, worker_vars >>

\* The runs stop at the bounds: no session past MaxSessions is started, and
\* no document past MaxDocs is stored.
WithinBounds(o) ==
    /\ Len(o.qr_sessions) <= MaxDocs
    /\ \A k \in 1..Len(o.qr_sessions) :
          o.qr_sessions[k].session_number <= MaxSessions

Start ==
    \E t \in Teachers, ri \in RotationIntervals, c \in generate_qr_code :
        LET o == start_qr_session(class_store, qr_sessions, t, ri, c)
        IN  WithinBounds(o) /\ Apply(o)

GetActive ==
    \E c \in generate_qr_code :
        Apply(get_active_qr_session(class_store, qr_sessions, c))

\* Every user submits a bare code; the other payload shapes, which the code
\* check of lines 744-751 treats the same for every user, come from u1.
ScanInputs ==
    { << u, q >> \in Users \X Payloads :
        u = "u1" \/ (q.shape = "bare" /\ q.text \in Codes) }

Scan ==
    \E in \in ScanInputs :
        Apply(scan_qr_code(class_store, qr_sessions, in[1], in[2]))

Stop ==
    \E t \in Teachers : Apply(stop_qr_session(class_store, qr_sessions, t))

\* The clock advances.
Tick ==
    /\ now < MaxTime
    /\ now' = now + 1
    /\ UNCHANGED << store_vars, last, worker_vars >>

Next == Start \/ GetActive \/ Scan \/ Stop \/ Tick

Spec == Init /\ [][Next]_vars

\* ----------------------------------- the calls, one Store access at a time
\* The interleaved specification: each worker runs a handler as the
\* sequence of its Store reads and writes, and other workers' accesses may
\* fall between them (the source takes no lock).  With serialized = TRUE a
\* call begins only when no other call is in flight.
MayBegin(w) ==
    /\ workers[w].pc = "idle"
    /\ calls < MaxCalls
    /\ serialized => \A v \in Workers : workers[v].pc = "idle"

Begun(w, op) == [IdleWorker EXCEPT !.op = op]

Returned(wk, err) ==
    [wk EXCEPT !.pc = "idle", !.err = err,
               !.session_data = NoSession, !.class_data = NoClass]

\* start_qr_session, lines 675-683: get_class and its checks.
StartGetClass(w, teacher_id, code) ==
    LET class_data == get_class(class_store)
        wk == [Begun(w, "start") EXCEPT !.teacher_id = teacher_id, !.code = code]
    IN  /\ MayBegin(w)
        /\ calls' = calls + 1
        /\ workers' = [workers EXCEPT ![w] =
              IF ~class_data.present \/ class_data.teacher_id # teacher_id
              THEN Returned(wk, "Class not found or unauthorized")
              ELSE IF class_data.enrollment_mode # "enrollment_via_id"
              THEN Returned(wk, "QR attendance is only available")
              ELSE [wk EXCEPT !.pc = "start_get_session",
                       !.session_number =
                           count_valid_sessions_for_date(class_data, Date) + 1]]
        /\ UNCHANGED << store_vars, now, last, serialized >>

\* Lines 685-688: get_qr_session and the check for an active session.
StartGetSession(w) ==
    LET wk == workers[w]
        existing_session == get_qr_session(qr_sessions)
    IN  /\ wk.pc = "start_get_session"
        /\ workers' = [workers EXCEPT ![w] =
              IF IsActive(existing_session)
              THEN Returned(wk, "There is already an active QR session")
              ELSE [wk EXCEPT !.pc = "start_create",
                       !.session_data =
                           NewSession(wk.teacher_id, wk.session_number,
                                      CHOOSE ri \in RotationIntervals : TRUE,
                                      wk.code, now)]]
        /\ UNCHANGED << store_vars, now, last, serialized, calls >>

\* Line 705: create_qr_session.
StartCreate(w) ==
    LET wk == workers[w]
    IN  /\ wk.pc = "start_create"
        /\ wk.session_number <= MaxSessions
        /\ Len(qr_sessions) < MaxDocs
        /\ qr_sessions' =
               create_qr_session(backend_type, qr_sessions, wk.session_data)
        /\ workers' = [workers EXCEPT ![w] =
              [Returned(wk, "ok") EXCEPT
                  !.code_generated_at = wk.session_data.code_generated_at]]
        /\ UNCHANGED << backend_type, class_store, enrollments, now, last,
                        serialized, calls >>

\* get_active_qr_session, lines 713-724: get_qr_session, and the rotation
\* of the local copy when it is due.
GetActiveRead(w, code) ==
    LET session_data == get_qr_session(qr_sessions)
        wk == Begun(w, "getActive")
    IN  /\ MayBegin(w)
        /\ calls' = calls + 1
        /\ workers' = [workers EXCEPT ![w] =
              IF ~IsActive(session_data)
              THEN Returned(wk, "None")
              ELSE IF RotationDue(session_data, now)
              THEN [wk EXCEPT !.pc = "get_active_update",
                       !.session_data = RotatedSession(session_data, code, now),
                       !.session_number = session_data.session_number,
                       !.code = code, !.code_generated_at = now,
                       !.rotated = TRUE]
              ELSE [Returned(wk, "ok") EXCEPT
                       !.session_number = session_data.session_number,
                       !.code = session_data.current_code,
                       !.code_generated_at = session_data.code_generated_at]]
        /\ UNCHANGED << store_vars, now, last, serialized >>

\* Line 725: update_qr_session with the rotated copy.
GetActiveUpdate(w) ==
    LET wk == workers[w]
    IN  /\ wk.pc = "get_active_update"
        /\ qr_sessions' =
               update_qr_session(backend_type, qr_sessions, wk.session_data, now)
        /\ workers' = [workers EXCEPT ![w] = Returned(wk, "ok")]
        /\ UNCHANGED << backend_type, class_store, enrollments, now, last,
                        serialized, calls >>

\* scan_qr_code, lines 738-767: get_qr_session, the code check, and the
\* enrollment of the student.
ScanGetSession(w, student_id, qr_code) ==
    LET session_data == get_qr_session(qr_sessions)
        found == ActiveEnrollmentIndex(enrollments, student_id)
        wk == [Begun(w, "scan") EXCEPT !.student_id = student_id]
    IN  /\ MayBegin(w)
        /\ calls' = calls + 1
        /\ workers' = [workers EXCEPT ![w] =
              IF ~IsActive(session_data)
              THEN Returned(wk, "No active QR session")
              ELSE IF ~CodeMatches(session_data, qr_code)
              THEN Returned(wk, "Invalid or expired QR code")
              ELSE IF found = {}
              THEN Returned(wk, "Student not actively enrolled in this class")
              ELSE [wk EXCEPT !.pc = "scan_get_class",
                       !.session_data = session_data,
                       !.session_number = session_data.session_number,
                       !.student_record_id =
                           enrollments[FirstOf(found)].student_record_id]]
        /\ UNCHANGED << store_vars, now, last, serialized >>

\* Lines 770-832: get_class, and the entry rewritten in the local copy.
ScanGetClass(w) ==
    LET wk == workers[w]
        class_data == get_class(class_store)
    IN  /\ wk.pc = "scan_get_class"
        /\ workers' = [workers EXCEPT ![w] =
              IF ~class_data.present
              THEN Returned(wk, "Class not found")
              ELSE IF RecordIndex(class_data.students, wk.student_record_id) = {}
              THEN Returned(wk, "Student record not found")
              ELSE [wk EXCEPT !.pc = "scan_update_class",
                       !.class_data =
                           ScanClass(class_data, wk.student_record_id, Date,
                                     wk.session_number)]]
        /\ UNCHANGED << store_vars, now, last, serialized, calls >>

\* Line 835: update_class with the local copy.
ScanUpdateClass(w) ==
    LET wk == workers[w]
    IN  /\ wk.pc = "scan_update_class"
        /\ class_store' = update_class(class_store, wk.class_data)
        /\ workers' = [workers EXCEPT ![w] =
              [wk EXCEPT !.pc = "scan_update_session", !.class_data = NoClass]]
        /\ UNCHANGED << backend_type, enrollments, qr_sessions, now, last,
                        serialized, calls >>

\* Lines 838-843: update_qr_session with the local copy of the session.
ScanUpdateSession(w) ==
    LET wk == workers[w]
    IN  /\ wk.pc = "scan_update_session"
        /\ qr_sessions' =
               update_qr_session(backend_type, qr_sessions,
                   ScanSession(wk.session_data, wk.student_record_id, now), now)
        /\ workers' = [workers EXCEPT ![w] = Returned(wk, "ok")]
        /\ UNCHANGED << backend_type, class_store, enrollments, now, last,
                        serialized, calls >>

\* stop_qr_session, lines 857-866: get_qr_session and its checks.
StopGetSession(w, teacher_id) ==
    LET session_data == get_qr_session(qr_sessions)
        wk == [Begun(w, "stop") EXCEPT !.teacher_id = teacher_id]
    IN  /\ MayBegin(w)
        /\ calls' = calls + 1
        /\ workers' = [workers EXCEPT ![w] =
              IF ~IsActive(session_data)
              THEN Returned(wk, "No active session")
              ELSE IF session_data.teacher_id # teacher_id
              THEN Returned(wk, "Unauthorized")
              ELSE [wk EXCEPT !.pc = "stop_get_class",
                       !.session_data = session_data,
                       !.session_number = session_data.session_number]]
        /\ UNCHANGED << store_vars, now, last, serialized >>

\* Lines 871-925: get_enrollments, get_class (class_data.get raises
\* AttributeError at line 880 when it is None), and the sweep of the copy.
StopGetClass(w) ==
    LET wk == workers[w]
        class_data == get_class(class_store)
    IN  /\ wk.pc = "stop_get_class"
        /\ workers' = [workers EXCEPT ![w] =
              IF ~class_data.present
              THEN Returned(wk, "AttributeError")
              ELSE [wk EXCEPT !.pc = "stop_update_class",
                       !.class_data =
                           SweepClass(class_data, ActiveStudentIds(enrollments),
                                      ScannedIds(wk.session_data), Date,
                                      wk.session_number)]]
        /\ UNCHANGED << store_vars, now, last, serialized, calls >>

\* Line 928: update_class.
StopUpdateClass(w) ==
    LET wk == workers[w]
    IN  /\ wk.pc = "stop_update_class"
        /\ class_store' = update_class(class_store, wk.class_data)
        /\ workers' = [workers EXCEPT ![w] =
              [wk EXCEPT !.pc = "stop_update_session", !.class_data = NoClass]]
        /\ UNCHANGED << backend_type, enrollments, qr_sessions, now, last,
                        serialized, calls >>

\* Lines 931-939: update_qr_session with the stopped copy; the returned
\* scanned_count is len(scanned_ids) of the session read at line 857.
StopUpdateSession(w) ==
    LET wk == workers[w]
    IN  /\ wk.pc = "stop_update_session"
        /\ qr_sessions' =
               update_qr_session(backend_type, qr_sessions,
                   StoppedSession(wk.session_data, now), now)
        /\ workers' = [workers EXCEPT ![w] =
              [Returned(wk, "ok") EXCEPT
                  !.scanned_count =
                      Cardinality(ScannedIds(wk.session_data))]]
        /\ UNCHANGED << backend_type, class_store, enrollments, now, last,
                        serialized, calls >>

TickConc ==
    /\ now < MaxTime
    /\ now' = now + 1
    /\ UNCHANGED << store_vars, last, worker_vars >>

\* The interleaved runs start from a class in enrollment_via_id mode with
\* active enrollments and no attendance yet for the date.
InitConc ==
    /\ backend_type \in {"file", "mongodb"}
    /\ class_store =
          [present |-> TRUE, teacher_id |-> Owner,
           enrollment_mode |-> "enrollment_via_id",
           students |-> [k \in 1..Len(RecordIds) |-> Student(RecordIds[k], NoEntry)]]
    /\ enrollments \in { e \in EnrollmentTables : e[1].status = "active" }
    /\ qr_sessions = << >>
    /\ now = 0
    /\ last = Result("none", "ok")
    /\ workers = [w \in Workers |-> IdleWorker]
    /\ serialized \in BOOLEAN
    /\ calls = 0

NextConc ==
    \/ \E w \in Workers, c \in generate_qr_code : StartGetClass(w, Owner, c)
    \/ \E w \in Workers : StartGetSession(w)
    \/ \E w \in Workers : StartCreate(w)
    \/ \E w \in Workers, c \in generate_qr_code : GetActiveRead(w, c)
    \/ \E w \in Workers : GetActiveUpdate(w)
    \/ \E w \in Workers, u \in {"u1", "u2"}, c \in Codes :
          ScanGetSession(w, u, [shape |-> "bare", text |-> c])
    \/ \E w \in Workers : ScanGetClass(w)
    \/ \E w \in Workers : ScanUpdateClass(w)
    \/ \E w \in Workers : ScanUpdateSession(w)
    \/ \E w \in Workers : StopGetSession(w, Owner)
    \/ \E w \in Workers : StopGetClass(w)
    \/ \E w \in Workers : StopUpdateClass(w)
    \/ \E w \in Workers : StopUpdateSession(w)
    \/ TickConc

SpecConc == InitConc /\ [][NextConc]_vars

\* ============================================================ properties
\* The QRSession the Store returns for the key, and what the class holds.
StoredSession == get_qr_session(qr_sessions)

ClassIds == { class_store.students[k].id : k \in 1..Len(class_store.students) }

EntryIn(class, rid) ==
    class.students[FirstOf(RecordIndex(class.students, rid))].attendance[Date]

\* The status an entry records for session n: the scalar itself for n = 1,
\* the status of the mark session_n of a structured entry, "none" otherwise.
MarkOf(e, n) ==
    IF e.kind = "str" THEN (IF n = 1 THEN e.mark ELSE "none")
    ELSE IF e.kind = "sessions" /\ n \in ExistingIds(e.sessions)
         THEN e.sessions[FirstOf({ k \in 1..Len(e.sessions) :
                                     e.sessions[k].id = n })].status
         ELSE "none"

Occurrences(seq, x) == Cardinality({ k \in 1..Len(seq) : seq[k] = x })

\* The student records with an active enrollment that are in the class.
ActiveInClass == ActiveStudentIds(enrollments) \cap ClassIds

\* The users whose scan can succeed: an active enrollment and a record.
Scanners ==
    { u \in Users :
        /\ ActiveEnrollmentIndex(enrollments, u) # {}
        /\ enrollments[FirstOf(ActiveEnrollmentIndex(enrollments, u))]
              .student_record_id \in ClassIds }

RecordOf(u) ==
    enrollments[FirstOf(ActiveEnrollmentIndex(enrollments, u))].student_record_id

Bare(c) == [shape |-> "bare", text |-> c]

\* C1 (as claimed): whenever a QRSession with status active is stored for
\* the key, a start by the class owner fails with "already an active QR
\* session" and leaves the stored documents and the Class as they were; so
\* no second start succeeds between a successful start and the next stop.
C1_StartRejectedWhileActive ==
    (\E k \in 1..Len(qr_sessions) : qr_sessions[k].status = "active") =>
        \A ri \in RotationIntervals, c \in generate_qr_code :
            LET o == start_qr_session(class_store, qr_sessions, Owner, ri, c)
            IN  /\ o.last.err = "There is already an active QR session"
                /\ o.qr_sessions = qr_sessions
                /\ o.class_store = class_store

\* C2 (as claimed): right after a successful stop of session N, every
\* student record of the class with an active enrollment that is not in
\* scanned_students has status A for session N, and the stored session is
\* stopped and carries stopped_at.
C2_AbsenceClosure ==
    (last.op = "stop" /\ last.err = "ok") =>
        /\ StoredSession.status = "stopped"
        /\ StoredSession.stopped_at # Absent
        /\ \A rid \in ActiveInClass \ ScannedIds(StoredSession) :
              MarkOf(EntryIn(class_store, rid), StoredSession.session_number) = "A"

\* C3 (as claimed): on an active session, a second scan by the same actively
\* enrolled student with the current code leaves the Class and
\* scanned_students as the first scan left them, the student's record id
\* occurs once in scanned_students, and the student's mark for the session
\* is P after either scan.
C3_IdempotentScan ==
    IsActive(StoredSession) =>
        \A u \in Scanners :
            LET q == Bare(StoredSession.current_code)
                n == StoredSession.session_number
                o1 == scan_qr_code(class_store, qr_sessions, u, q)
                o2 == scan_qr_code(o1.class_store, o1.qr_sessions, u, q)
                s1 == get_qr_session(o1.qr_sessions)
                s2 == get_qr_session(o2.qr_sessions)
            IN  /\ o1.last.err = "ok" /\ o2.last.err = "ok"
                /\ o2.class_store = o1.class_store
                /\ s2.scanned_students = s1.scanned_students
                /\ Occurrences(s2.scanned_students, RecordOf(u)) = 1
                /\ MarkOf(EntryIn(o1.class_store, RecordOf(u)), n) = "P"
                /\ MarkOf(EntryIn(o2.class_store, RecordOf(u)), n) = "P"

\* C4: a scan against an active session whose submitted code value is not
\* the session's current_code raises "Invalid or expired QR code" and
\* leaves the Class and the stored QRSession documents exactly as they were.
C4_InvalidCodeRejected ==
    IsActive(StoredSession) =>
        \A u \in Users, q \in Payloads :
            QrCodeValue(q) # Bare(StoredSession.current_code) =>
                LET o == scan_qr_code(class_store, qr_sessions, u, q)
                IN  /\ o.last.err = "Invalid or expired QR code"
                    /\ o.class_store = class_store
                    /\ o.qr_sessions = qr_sessions

\* C4 witness: a scan has just been refused for its code while the session
\* is active and already holds a scanned student.
C4_Witness ==
    /\ last.op = "scan" /\ last.err = "Invalid or expired QR code"
    /\ IsActive(StoredSession)
    /\ StoredSession.scanned_students # << >>

\* Whether the stored session left a mark in the class: a scan succeeded, or
\* the sweep of stop found an actively enrolled, unscanned student record.
RecordedAMark(session_data) ==
    \/ ScannedIds(session_data) # {}
    \/ ActiveInClass \ ScannedIds(session_data) # {}

\* C5 (as claimed): a start on a date without valid marks yields
\* session_number 1, and once session 1 is stopped the next start yields
\* session_number 2, whatever the scans and the active enrollments were.
C5_SecondSessionIsTwo ==
    \A ri \in RotationIntervals, c \in generate_qr_code :
        LET o == start_qr_session(class_store, qr_sessions, Owner, ri, c)
        IN  o.last.err = "ok" =>
              /\ count_valid_sessions_for_date(class_store, Date) = 0
                    => o.last.session_number = 1
              /\ (StoredSession.status = "stopped"
                    /\ StoredSession.session_number = 1)
                    => o.last.session_number = 2

\* C5 (amended): a start on a date without valid marks yields session_number
\* 1; once session 1 is stopped, the next start yields session_number 2 if
\* session 1 recorded a mark (a scan succeeded or stop marked an actively
\* enrolled student of the class absent), and 1 again if it recorded none.
C5_SecondSessionIsTwoIfMarked ==
    \A ri \in RotationIntervals, c \in generate_qr_code :
        LET o == start_qr_session(class_store, qr_sessions, Owner, ri, c)
        IN  o.last.err = "ok" =>
              /\ count_valid_sessions_for_date(class_store, Date) = 0
                    => o.last.session_number = 1
              /\ (StoredSession.status = "stopped"
                    /\ StoredSession.session_number = 1)
                    => o.last.session_number =
                          IF RecordedAMark(StoredSession) THEN 2 ELSE 1

\* C5 witness: session 1 was stopped with a scanned student and the start
\* that followed returned session_number 2 (both documents are in the
\* MongoDB collection).
C5_Witness ==
    /\ Len(qr_sessions) = 2
    /\ qr_sessions[1].status = "stopped" /\ qr_sessions[1].session_number = 1
    /\ qr_sessions[1].scanned_students # << >>
    /\ qr_sessions[2].status = "active" /\ qr_sessions[2].session_number = 2
    /\ last.op = "start" /\ last.err = "ok" /\ last.session_number = 2

\* C6 (as claimed): getActive on an active session returns the stored
\* current_code and writes nothing while less than rotation_interval has
\* elapsed since code_generated_at; from rotation_interval on it returns a
\* code different from the previous one, sets code_generated_at to the time
\* of the read and stores the session with that code.
C6_RotationTiming ==
    IsActive(StoredSession) =>
        \A c \in generate_qr_code :
            LET o == get_active_qr_session(class_store, qr_sessions, c)
                after == get_qr_session(o.qr_sessions)
            IN  IF now - StoredSession.code_generated_at
                      < StoredSession.rotation_interval
                THEN /\ o.last.code = StoredSession.current_code
                     /\ o.qr_sessions = qr_sessions
                     /\ o.class_store = class_store
                ELSE /\ o.last.code # StoredSession.current_code
                     /\ after.current_code = o.last.code
                     /\ after.code_generated_at = now

\* C7: while the stored session is stopped, every scan raises "No active QR
\* session", every stop raises "No active session" and getActive returns
\* None, and none of them changes the stored documents or the Class (so
\* none of them sets the status back to active).
C7_StoppedIsAbsorbing ==
    StoredSession.status = "stopped" =>
        /\ \A u \in Users, q \in Payloads :
              LET o == scan_qr_code(class_store, qr_sessions, u, q)
              IN  /\ o.last.err = "No active QR session"
                  /\ o.qr_sessions = qr_sessions
                  /\ o.class_store = class_store
        /\ \A t \in Teachers :
              LET o == stop_qr_session(class_store, qr_sessions, t)
              IN  /\ o.last.err = "No active session"
                  /\ o.qr_sessions = qr_sessions
                  /\ o.class_store = class_store
        /\ \A c \in generate_qr_code :
              LET o == get_active_qr_session(class_store, qr_sessions, c)
              IN  /\ o.last.err = "None"
                  /\ o.qr_sessions = qr_sessions
                  /\ o.class_store = class_store

\* C7 witness: a second stop has just been refused on a stopped session
\* that holds a scanned student.
C7_Witness ==
    /\ StoredSession.status = "stopped"
    /\ StoredSession.scanned_students # << >>
    /\ last.op = "stop" /\ last.err = "No active session"

ScanReturned(w, n) ==
    /\ workers[w].pc = "idle" /\ workers[w].op = "scan"
    /\ workers[w].err = "ok" /\ workers[w].session_number = n

\* Worker w's last call was a getActive that rotated the code of session n.
RotationReturned(w, n) ==
    /\ workers[w].pc = "idle" /\ workers[w].op = "getActive"
    /\ workers[w].err = "ok" /\ workers[w].rotated
    /\ workers[w].session_number = n

\* Two scans of distinct students both returned success for the stored
\* active session, and one of the two updates is missing.
LostScan(w, v) ==
    LET n == StoredSession.session_number
    IN  /\ w # v
        /\ IsActive(StoredSession)
        /\ ScanReturned(w, n) /\ ScanReturned(v, n)
        /\ workers[w].student_record_id # workers[v].student_record_id
        /\ \/ workers[w].student_record_id \notin ScannedIds(StoredSession)
           \/ MarkOf(EntryIn(class_store, workers[w].student_record_id), n) # "P"

\* C8: when no call begins while another is in flight, two scans by
\* distinct students that both returned success for the stored session are
\* both in scanned_students and both marked P in the Class.
C8_NoLostScanWhenSerialized ==
    serialized => \A w, v \in Workers : ~LostScan(w, v)

\* C8 witness: without the lock, two interleaved scans both returned
\* success and one student's update is lost.
C8_Witness ==
    ~serialized /\ \E w, v \in Workers : LostScan(w, v)

\* A successful scan of w is missing from scanned_students after the
\* rotation that v wrote.
ScanLostToRotation(w, v) ==
    LET n == StoredSession.session_number
    IN  /\ w # v
        /\ IsActive(StoredSession)
        /\ ScanReturned(w, n) /\ RotationReturned(v, n)
        /\ workers[w].student_record_id \notin ScannedIds(StoredSession)

\* The code v rotated to has been replaced by a stale one after the write of
\* w's scan: the stored code is older than v's rotation, or is of the same
\* time and not the code v drew. (A stored code newer than v's rotation is a
\* later rotation, not a loss.)
RotationLostToScan(w, v) ==
    LET n == StoredSession.session_number
    IN  /\ w # v
        /\ IsActive(StoredSession)
        /\ ScanReturned(w, n) /\ RotationReturned(v, n)
        /\ \/ StoredSession.code_generated_at < workers[v].code_generated_at
           \/ /\ StoredSession.code_generated_at = workers[v].code_generated_at
              /\ StoredSession.current_code # workers[v].code

\* C9: when no call begins while another is in flight, a rotation by
\* getActive and a successful scan of the same session lose nothing: the
\* scanned student stays in scanned_students and the rotated code and its
\* code_generated_at stay stored.
C9_NoRotationScanLossWhenSerialized ==
    serialized =>
        \A w, v \in Workers :
            ~ScanLostToRotation(w, v) /\ ~RotationLostToScan(w, v)

\* C9 witness: without the lock, the rotation write has overwritten the
\* scanned_students of a scan that returned success.
C9_Witness ==
    ~serialized /\ \E w, v \in Workers : ScanLostToRotation(w, v)

\* ------------------------------------------------ shape of the entries
\* C11 (as claimed): an entry that is in structured form stays in
\* structured form under every scan and every stop, those of a session
\* with session_number 1 included.
C11_StructuredNeverReverts ==
    IsActive(StoredSession) =>
        /\ \A u \in Scanners :
              LET o == scan_qr_code(class_store, qr_sessions, u,
                                    Bare(StoredSession.current_code))
              IN  EntryIn(class_store, RecordOf(u)).kind = "sessions"
                      => EntryIn(o.class_store, RecordOf(u)).kind = "sessions"
        /\ LET o == stop_qr_session(class_store, qr_sessions, Owner)
           IN  \A rid \in ClassIds :
                   EntryIn(class_store, rid).kind = "sessions"
                      => EntryIn(o.class_store, rid).kind = "sessions"

\* The highest session_number of the sessions started for the key so far:
\* the file holds the latest session, the collection all of them.
HighestOpened ==
    IF qr_sessions = << >> THEN 0
    ELSE CHOOSE n \in { qr_sessions[k].session_number : k \in 1..Len(qr_sessions) } :
            \A k \in 1..Len(qr_sessions) : qr_sessions[k].session_number <= n

\* The marks of a structured entry are session_1, ..., session_k in order.
InOrder(e) == \A j \in 1..Len(e.sessions) : e.sessions[j].id = j

C13_RejectedStartWritesNothing ==
    \A t \in Teachers, ri \in RotationIntervals, c \in generate_qr_code :
        /\ LET o == start_qr_session(NoClass, qr_sessions, t, ri, c)
           IN  /\ o.last.err = "Class not found or unauthorized"
               /\ o.qr_sessions = qr_sessions /\ o.class_store = NoClass
        /\ LET o == start_qr_session(class_store, qr_sessions, t, ri, c)
           IN  /\ (~class_store.present \/ class_store.teacher_id # t)
                     => /\ o.last.err = "Class not found or unauthorized"
                        /\ o.qr_sessions = qr_sessions
                        /\ o.class_store = class_store
               /\ (/\ class_store.present /\ class_store.teacher_id = t
                   /\ class_store.enrollment_mode # "enrollment_via_id")
                     => /\ o.last.err = "QR attendance is only available"
                        /\ o.qr_sessions = qr_sessions
                        /\ o.class_store = class_store

\* C13 witness: a teacher who is not the owner has just been refused a
\* start on a class in enrollment_via_id mode, and no QRSession is stored.
C13_Witness ==
    /\ last.op = "start" /\ last.err = "Class not found or unauthorized"
    /\ class_store.present /\ class_store.enrollment_mode = "enrollment_via_id"
    /\ qr_sessions = << >>

\* C14: a scan with the current code of the active session that fails for
\* want of an active enrollment of the caller, of the Class, or of the
\* student record named by the enrollment writes nothing: the Class and the
\* QRSession documents are as before.
C14_FailedScanWritesNothing ==
    IsActive(StoredSession) =>
        \A u \in Users, q \in Payloads :
            CodeMatches(StoredSession, q) =>
                LET o == scan_qr_code(class_store, qr_sessions, u, q)
                    oc == scan_qr_code(NoClass, qr_sessions, u, q)
                    found == ActiveEnrollmentIndex(enrollments, u)
                IN  /\ found = {} =>
                        /\ o.last.err = "Student not actively enrolled in this class"
                        /\ o.qr_sessions = qr_sessions
                        /\ o.class_store = class_store
                    /\ found # {} =>
                        /\ oc.last.err = "Class not found"
                        /\ oc.qr_sessions = qr_sessions
                        /\ oc.class_store = NoClass
                    /\ (found # {} /\ RecordOf(u) \notin ClassIds) =>
                        /\ o.last.err = "Student record not found"
                        /\ o.qr_sessions = qr_sessions
                        /\ o.class_store = class_store

\* C14 witness: a scan with the current code has just failed because the
\* enrollment names a student record the class does not hold, while the
\* session holds a scanned student.
C14_Witness ==
    /\ last.op = "scan" /\ last.err = "Student record not found"
    /\ IsActive(StoredSession)
    /\ StoredSession.scanned_students # << >>

\* C15: a stop of an active session by a teacher other than the session's
\* teacher_id raises Unauthorized; the stored session (still active) and
\* the Class, hence every attendance entry, are as before.
C15_StopAuthorization ==
    IsActive(StoredSession) =>
        \A t \in Teachers \ {StoredSession.teacher_id} :
            LET o == stop_qr_session(class_store, qr_sessions, t)
            IN  /\ o.last.err = "Unauthorized"
                /\ o.qr_sessions = qr_sessions
                /\ o.class_store = class_store

\* C15 witness: a stop by another teacher has just been refused while the
\* session is active and an actively enrolled student has not scanned.
C15_Witness ==
    /\ last.op = "stop" /\ last.err = "Unauthorized"
    /\ IsActive(StoredSession)
    /\ ActiveInClass \ ScannedIds(StoredSession) # {}

\* C16: a stop leaves the list of student records and, for every student,
\* the attendance of the other dates as they were, and changes nothing in
\* the record of a student without an active enrollment or in
\* scanned_students.
C16_SweepFrame ==
    IsActive(StoredSession) =>
        \A t \in Teachers :
            LET o == stop_qr_session(class_store, qr_sessions, t)
                before == class_store.students
                after == o.class_store.students
            IN  /\ Len(after) = Len(before)
                /\ \A k \in 1..Len(before) :
                      /\ after[k].id = before[k].id
                      /\ after[k].attendance[OtherDate]
                            = before[k].attendance[OtherDate]
                      /\ (\/ before[k].id \notin ActiveStudentIds(enrollments)
                          \/ before[k].id \in ScannedIds(StoredSession))
                            => after[k] = before[k]

\* C16 witness: a stop has just swept at least one student absent in a
\* class that holds a scanned student and a student without an active
\* enrollment.
C16_Witness ==
    /\ last.op = "stop" /\ last.err = "ok"
    /\ last.absent_count >= 1 /\ last.scanned_count >= 1
    /\ ClassIds \ ActiveStudentIds(enrollments) # {}

\* ----------------------------------------------------- the Store backends
\* C17 (as claimed): after a successful start the session the Store returns
\* for the key is the one just created (active, no scanned student,
\* session_number = valid sessions + 1, the returned code), also when a
\* stopped session was stored; a getActive that follows returns it and a
\* scan with its code by an actively enrolled student of the class succeeds.
C17_StartPostcondition ==
    \A ri \in RotationIntervals, c \in generate_qr_code :
        LET o == start_qr_session(class_store, qr_sessions, Owner, ri, c)
            created == get_qr_session(o.qr_sessions)
            g == get_active_qr_session(o.class_store, o.qr_sessions, c)
        IN  o.last.err = "ok" =>
              /\ created.status = "active"
              /\ created.scanned_students = << >>
              /\ created.session_number =
                    count_valid_sessions_for_date(class_store, Date) + 1
              /\ created.session_number = o.last.session_number
              /\ created.current_code = c /\ o.last.code = c
              /\ g.last.err = "ok" /\ g.last.code = c
              /\ \A u \in Scanners :
                    scan_qr_code(o.class_store, o.qr_sessions, u, Bare(c))
                        .last.err = "ok"

\* The records the handlers hand to the Store for the key: a new session
\* (line 705) and, when a session is stored, that session rotated (line
\* 725), with a scan recorded (line 843) and stopped (line 933).
SessionRecords ==
    { NewSession(Owner, n, ri, c, now) :
        n \in 1..2, ri \in RotationIntervals, c \in Codes }
    \cup (IF StoredSession.status = "none" THEN {}
          ELSE { RotatedSession(StoredSession, CHOOSE c \in Codes : TRUE, now),
                 ScanSession(StoredSession, RecordIds[1], now),
                 StoppedSession(StoredSession, now) })

\* A call of DatabaseManager.create_qr_session or update_qr_session on the
\* key (lines 619-629), sent to the backend.
StoreCalls == { [op |-> o, data |-> d] : o \in {"create", "update"}, d \in SessionRecords }

StoreCall(backend, docs, call) ==
    IF call.op = "create" THEN create_qr_session(backend, docs, call.data)
    ELSE update_qr_session(backend, docs, call.data, now)

\* The record a call writes: update_qr_session adds updated_at.
Written(call) ==
    IF call.op = "create" THEN call.data
    ELSE [call.data EXCEPT !.updated_at = now]

\* C18 (as claimed): from a key for which both backends hold the same
\* content (no record, or one record), the same two create/update calls
\* make get_qr_session return the same record on the file backend and on
\* the MongoDB backend after each call, namely the whole record of the
\* latest call.
C18_BackendEquivalence ==
    Len(qr_sessions) <= 1 =>
        \A c1, c2 \in StoreCalls :
            LET f1 == StoreCall("file", qr_sessions, c1)
                m1 == StoreCall("mongodb", qr_sessions, c1)
                f2 == StoreCall("file", f1, c2)
                m2 == StoreCall("mongodb", m1, c2)
            IN  /\ get_qr_session(f1) = get_qr_session(m1)
                /\ get_qr_session(f1) = Written(c1)
                /\ get_qr_session(f2) = get_qr_session(m2)
                /\ get_qr_session(f2) = Written(c2)

\* C19 (as claimed): with the file backend, when the file of an active
\* session has become unreadable, a start does not succeed and leaves the
\* file alone, and getActive, scan and stop do not answer as they do for a
\* key without a session (None, "No active QR session", "No active
\* session").
C19_ReadFailurePropagates ==
    (backend_type = "file" /\ IsActive(StoredSession)) =>
        LET docs == << Unreadable(StoredSession) >>
        IN  /\ \A ri \in RotationIntervals, c \in generate_qr_code :
                  LET o == start_qr_session(class_store, docs, Owner, ri, c)
                  IN  o.last.err # "ok" /\ o.qr_sessions = docs
            /\ \A c \in generate_qr_code :
                  get_active_qr_session(class_store, docs, c).last.err # "None"
            /\ \A u \in Scanners :
                  scan_qr_code(class_store, docs, u,
                               Bare(StoredSession.current_code)).last.err
                      # "No active QR session"
            /\ stop_qr_session(class_store, docs, Owner).last.err
                  # "No active session"

\* ------------------------------------------------------ payload decoding
\* A bare payload is any input that is no JSON object and no JSON string
\* literal: text json.loads rejects, or a JSON number, array, true, false
\* or null, on which .get raises; all of them keep the raw input.
\* The value the claim compares with current_code: the field code of a JSON
\* object, the raw input for every other shape.
ClaimedCodeValue(payload) ==
    IF payload.shape = "object" THEN Bare(payload.text) ELSE payload

\* C20 (as claimed): the value compared with current_code is the field code
\* for a JSON object and the raw input for every other shape, a JSON object
\* without a code field included, and a scan passes the code check exactly
\* when that value is current_code.
C20_PayloadDecoding ==
    IsActive(StoredSession) =>
        \A q \in Payloads :
            /\ QrCodeValue(q) = ClaimedCodeValue(q)
            /\ CodeMatches(StoredSession, q)
                  <=> ClaimedCodeValue(q) = Bare(StoredSession.current_code)
            /\ scan_qr_code(class_store, qr_sessions, "u1", q).last.err
                    = "Invalid or expired QR code"
                  <=> ClaimedCodeValue(q) # Bare(StoredSession.current_code)

\* The value the source compares: as claimed, but None for a JSON object
\* without a code field.
DecodedCodeValue(payload) ==
    IF payload.shape = "object_nocode" THEN [shape |-> "none", text |-> "-"]
    ELSE ClaimedCodeValue(payload)

\* C20 (amended): the value compared with current_code is the field code
\* for a JSON object with a code field, None for a JSON object without one,
\* and the raw input for every other shape; a scan passes the code check
\* exactly when that value is current_code.
C20_PayloadDecodingNone ==
    IsActive(StoredSession) =>
        \A q \in Payloads :
            /\ QrCodeValue(q) = DecodedCodeValue(q)
            /\ CodeMatches(StoredSession, q)
                  <=> DecodedCodeValue(q) = Bare(StoredSession.current_code)
            /\ scan_qr_code(class_store, qr_sessions, "u1", q).last.err
                    = "Invalid or expired QR code"
                  <=> DecodedCodeValue(q) # Bare(StoredSession.current_code)

\* C20 witness: a scan has just passed the code check of a session whose
\* current_code is the code the JSON payloads carry, so that the object
\* payload is accepted, and the quoted one and the object without a code
\* field are refused, in this state.
C20_Witness ==
    /\ last.op = "scan" /\ last.err = "ok"
    /\ IsActive(StoredSession)
    /\ CodeMatches(StoredSession, [shape |-> "object", text |-> "AAAAAAA1"])
    /\ ~CodeMatches(StoredSession, [shape |-> "quoted", text |-> "AAAAAAA1"])
    /\ ~CodeMatches(StoredSession, [shape |-> "object_nocode", text |-> "AAAAAAA1"])

\* ============================================== the entries of one date
\* The calls applied to every entry a date can hold.  The attendance of a
\* date is also written outside the QR handlers (the teacher's edits of the
\* sheet), so a scan or a stop of session N can find any entry: none, a
\* str, a dict with 'status', or a dict with 'sessions' whose marks have
\* any status and need not reach session_N.
Statuses == {"P", "A", "null"}

\* The k-th smallest number of S.
IdAt(S, k) == CHOOSE i \in S : Cardinality({ j \in S : j < i }) = k - 1

\* The lists of SessionMarks with ids among session_1..session_MaxSessions,
\* in increasing order, each with any status.
MarkLists ==
    UNION { { [k \in 1..Cardinality(S) |-> SessionMark(IdAt(S, k), f[IdAt(S, k)])]
                : f \in [S -> Statuses] }
            : S \in SUBSET (1..MaxSessions) }

Entries ==
    { NoEntry, Scalar("P"), Scalar("A") }
    \cup { StatusDict(st, c) : st \in {"P", "null"}, c \in 1..2 }
    \cup { Structured(s) : s \in MarkLists }

\* The entries of the second student of the class.
NeighbourEntries ==
    { NoEntry, Scalar("P"),
      Structured(<< SessionMark(1, "A"), SessionMark(2, "P") >>),
      Structured(<< SessionMark(1, "P"), SessionMark(2, "null") >>) }

\* A class with any entry for its first student (or a class without
\* students), and session N of the date active with no scan yet.
InitEntries ==
    /\ backend_type = "file"
    /\ \E e1 \in Entries, e2 \in NeighbourEntries :
         class_store \in
            { [present |-> TRUE, teacher_id |-> Owner,
               enrollment_mode |-> "enrollment_via_id",
               students |-> << Student("r1", e1), Student("r2", e2),
                               Student("r3", Scalar("A")) >>],
              [present |-> TRUE, teacher_id |-> Owner,
               enrollment_mode |-> "enrollment_via_id", students |-> << >>] }
    /\ enrollments \in EnrollmentTables
    /\ \E n \in 1..MaxSessions :
         qr_sessions = << NewSession(Owner, n, 1, "AAAAAAA1", 0) >>
    /\ now = 0
    /\ last = Result("none", "ok")
    /\ workers = [w \in Workers |-> IdleWorker]
    /\ serialized = TRUE
    /\ calls = 0

NextEntries == Scan \/ Stop

SpecEntries == InitEntries /\ [][NextEntries]_vars

\* ------------------------------------------------- countValidSessions
\* The count the claim gives one student: the marks with a status for a
\* structured entry, 1 for a str, 0 for no entry.
ClaimedCount(e) ==
    IF e.kind = "sessions"
    THEN Cardinality({ k \in 1..Len(e.sessions) : e.sessions[k].status # "null" })
    ELSE IF e.kind = "str" THEN 1 ELSE 0

StudentCounts ==
    { ClaimedCount(class_store.students[k].attendance[Date]) :
        k \in 1..Len(class_store.students) }

\* C21: for a class whose entries of the date are structured, str or
\* absent, _count_valid_sessions_for_date is the greatest of the students'
\* counts (marks with a non-null status, 1 for a str, 0 for no entry), so
\* never more than one student's count, and 0 for a class without students.
C21_CountIsMaximum ==
    (\A k \in 1..Len(class_store.students) :
        class_store.students[k].attendance[Date].kind # "status") =>
        LET c == count_valid_sessions_for_date(class_store, Date)
        IN  /\ class_store.students = << >> => c = 0
            /\ class_store.students # << >> =>
                  /\ c \in StudentCounts
                  /\ \A x \in StudentCounts : x <= c

\* C21 witness: two students have marks (the sum of their counts exceeds
\* each count), one of them also a null mark, and the count is 2.
C21_Witness ==
    /\ Len(class_store.students) = 3
    /\ LET e1 == class_store.students[1].attendance[Date]
           e2 == class_store.students[2].attendance[Date]
       IN  /\ e1.kind = "sessions" /\ Len(e1.sessions) = 3
           /\ ClaimedCount(e1) = 2
           /\ e2.kind = "sessions" /\ ClaimedCount(e2) = 2
           /\ last.op = "scan" /\ last.err = "ok"
    /\ count_valid_sessions_for_date(class_store, Date) = 2

\* ------------------------------------------- writing the mark of session N
\* The list the claim describes for a student without a structured entry:
\* session_1 .. session_n in order, session_1 with the prior scalar (A when
\* there was none), session_n with the applied mark, A in between.
ClaimedList(prior, n, mark) ==
    [i \in 1..n |->
        SessionMark(i, IF i = n THEN mark
                       ELSE IF i = 1 /\ prior.kind = "str" THEN prior.mark
                       ELSE "A")]

\* C22: a scan (mark P) or a stop (mark A) of session N >= 2 applied to a
\* student whose entry is a str or absent leaves a structured entry with
\* exactly the N marks session_1..session_N in order: session_1 with the
\* prior scalar value, A when there was none, session_2..session_(N-1) with
\* A, and session_N with the applied mark.
C22_ScalarToStructured ==
    (IsActive(StoredSession) /\ StoredSession.session_number >= 2) =>
        LET n == StoredSession.session_number
        IN  /\ \A u \in Scanners :
                  LET prior == EntryIn(class_store, RecordOf(u))
                      o == scan_qr_code(class_store, qr_sessions, u,
                                        Bare(StoredSession.current_code))
                  IN  prior.kind \in {"str", "none"} =>
                         /\ o.last.err = "ok"
                         /\ EntryIn(o.class_store, RecordOf(u))
                               = Structured(ClaimedList(prior, n, "P"))
            /\ LET o == stop_qr_session(class_store, qr_sessions, Owner)
               IN  \A rid \in ActiveInClass \ ScannedIds(StoredSession) :
                      LET prior == EntryIn(class_store, rid)
                      IN  prior.kind \in {"str", "none"} =>
                             /\ o.last.err = "ok"
                             /\ EntryIn(o.class_store, rid)
                                   = Structured(ClaimedList(prior, n, "A"))

\* C22 witness: the second student's scan of session 3 has just turned the
\* scalar P into the marks P, A, P.
C22_Witness ==
    /\ last.op = "scan" /\ last.err = "ok" /\ last.session_number = 3
    /\ "r2" \in ScannedIds(StoredSession)
    /\ Len(class_store.students) = 3
    /\ EntryIn(class_store, "r2")
          = Structured(<< SessionMark(1, "P"), SessionMark(2, "A"),
                          SessionMark(3, "P") >>)

\* The marks with a status that entry e holds for the sessions other than n
\* are the same in entry f.
KeepsOtherMarks(e, f, n) ==
    \A k \in (1..MaxSessions) \ {n} :
        MarkOf(e, k) \in {"P", "A"} => MarkOf(f, k) = MarkOf(e, k)

\* C23 (as claimed): a scan or a stop of session N changes no non-null
\* status recorded for a session k # N of any student for the date (a prior
\* scalar is session_1 of the structured entry), and a scan changes the
\* record of no student other than the scanning one.
C23_EarlierMarksPreserved ==
    IsActive(StoredSession) =>
        LET n == StoredSession.session_number
        IN  /\ \A u \in Scanners :
                  LET o == scan_qr_code(class_store, qr_sessions, u,
                                        Bare(StoredSession.current_code))
                  IN  \A j \in 1..Len(class_store.students) :
                         /\ KeepsOtherMarks(
                                class_store.students[j].attendance[Date],
                                o.class_store.students[j].attendance[Date], n)
                         /\ class_store.students[j].id # RecordOf(u) =>
                               o.class_store.students[j] = class_store.students[j]
            /\ LET o == stop_qr_session(class_store, qr_sessions, Owner)
               IN  \A j \in 1..Len(class_store.students) :
                      KeepsOtherMarks(
                          class_store.students[j].attendance[Date],
                          o.class_store.students[j].attendance[Date], n)

C25_ScannedMarkedPresent ==
    \A k \in 1..Len(qr_sessions) :
        \A rid \in ScannedIds(qr_sessions[k]) :
            /\ rid \in ClassIds
            /\ MarkOf(EntryIn(class_store, rid),
                      qr_sessions[k].session_number) = "P"

\* ------------------------------------------------- rotation of the code
\* The documents docs2 hold every document of docs with the code it had.
SameCodes(docs, docs2) ==
    /\ Len(docs2) = Len(docs)
    /\ \A k \in 1..Len(docs) :
          /\ docs2[k].current_code = docs[k].current_code
          /\ docs2[k].code_generated_at = docs[k].code_generated_at

\* C26: the code rotates on getActive reads only.  A scan, a stop and a
\* refused start leave current_code and code_generated_at of every stored
\* session as they were; a scan submitting current_code passes the code
\* check however long ago code_generated_at is; and once a getActive read
\* has rotated the code to another one, a scan with the previous code is
\* refused as invalid or expired.
C26_RotationOnlyOnRead ==
    StoredSession.status # "none" =>
        /\ \A in \in ScanInputs :
              SameCodes(qr_sessions,
                        scan_qr_code(class_store, qr_sessions, in[1], in[2])
                            .qr_sessions)
        /\ \A t \in Teachers :
              SameCodes(qr_sessions,
                        stop_qr_session(class_store, qr_sessions, t).qr_sessions)
        /\ \A t \in Teachers, ri \in RotationIntervals, c \in generate_qr_code :
              LET o == start_qr_session(class_store, qr_sessions, t, ri, c)
              IN  o.last.err # "ok" => o.qr_sessions = qr_sessions
        /\ IsActive(StoredSession) =>
              /\ \A u \in Users :
                    LET o == scan_qr_code(class_store, qr_sessions, u,
                                          Bare(StoredSession.current_code))
                    IN  /\ o.last.err # "Invalid or expired QR code"
                        /\ u \in Scanners => o.last.err = "ok"
              /\ \A c \in generate_qr_code \ {StoredSession.current_code} :
                    LET g == get_active_qr_session(class_store, qr_sessions, c)
                    IN  RotationDue(StoredSession, now) =>
                           \A u \in Users :
                              scan_qr_code(g.class_store, g.qr_sessions, u,
                                           Bare(StoredSession.current_code))
                                  .last.err = "Invalid or expired QR code"

\* C26 witness: a scan has just succeeded with the current code although
\* rotation_interval has elapsed since code_generated_at.
C26_Witness ==
    /\ last.op = "scan" /\ last.err = "ok"
    /\ IsActive(StoredSession)
    /\ now - StoredSession.code_generated_at >= StoredSession.rotation_interval

\* The fields of a QRSession other than the code, the time of the code and
\* the store's updated_at.
KeptByRotation ==
    {"status", "teacher_id", "session_number", "started_at",
     "rotation_interval", "scanned_students", "last_scan_at", "stopped_at"}

\* C27: getActive leaves the Class alone and stores no further document; of
\* the stored session it changes at most current_code, code_generated_at
\* and updated_at (session_number, teacher_id, rotation_interval,
\* started_at, scanned_students and status stay), and on a key without a
\* session or with a stopped one it writes nothing.
C27_GetActiveFrame ==
    \A c \in generate_qr_code :
        LET o == get_active_qr_session(class_store, qr_sessions, c)
        IN  /\ o.class_store = class_store
            /\ Len(o.qr_sessions) = Len(qr_sessions)
            /\ \A k \in 1..Len(qr_sessions) :
                  \A f \in KeptByRotation :
                      o.qr_sessions[k][f] = qr_sessions[k][f]
            /\ \A k \in 2..Len(qr_sessions) : o.qr_sessions[k] = qr_sessions[k]
            /\ ~IsActive(StoredSession) =>
                  /\ o.qr_sessions = qr_sessions
                  /\ o.last.err = "None"

\* C27 witness: a getActive read has just rotated the code of a session
\* that holds a scanned student.
C27_Witness ==
    /\ last.op = "getActive" /\ last.err = "ok"
    /\ IsActive(StoredSession)
    /\ StoredSession.scanned_students # << >>
    /\ StoredSession.code_generated_at > StoredSession.started_at
    /\ StoredSession.updated_at = StoredSession.code_generated_at
    /\ StoredSession.current_code = last.code

\* ------------------------------------------------ a scan against a stop
\* Worker v's last call was a stop that returned success for session n.
StopReturned(v, n) ==
    /\ workers[v].pc = "idle" /\ workers[v].op = "stop"
    /\ workers[v].err = "ok" /\ workers[v].session_number = n

\* A scan of w and a stop of v both returned success for the stored session
\* and the scan is lost: the student is not marked P for the session, or is
\* missing from scanned_students, or the count the stop returned leaves a
\* scanned student out.
ScanLostToStop(w, v) ==
    LET n == StoredSession.session_number
        rid == workers[w].student_record_id
    IN  /\ w # v
        /\ ScanReturned(w, n) /\ StopReturned(v, n)
        /\ \/ MarkOf(EntryIn(class_store, rid), n) # "P"
           \/ rid \notin ScannedIds(StoredSession)
           \/ workers[v].scanned_count
                 < Cardinality(ScannedIds(StoredSession))

\* C28: a scan and a stop of the same session whose Store reads and writes
\* interleave can both return success while the scan is lost, the student
\* ending with the scalar A for session 1 and outside the scanned_count the
\* stop returned (the witness); when no call begins while another is in
\* flight, no scan that returned success is lost to the stop.
C28_NoScanLostToStopWhenSerialized ==
    serialized => \A w, v \in Workers : ~ScanLostToStop(w, v)

\* C28 witness: without the lock, a scan and a stop of session 1 both
\* returned success, the scanning student's entry is the scalar A and the
\* stop returned scanned_count 0.
C28_Witness ==
    /\ ~serialized
    /\ \E w, v \in Workers :
          /\ ScanLostToStop(w, v)
          /\ StoredSession.session_number = 1
          /\ StoredSession.status = "stopped"
          /\ EntryIn(class_store, workers[w].student_record_id) = Scalar("A")
          /\ workers[v].scanned_count = 0

\* ------------------------------------------------ a start against a start
\* Worker w's last call was a start that returned success.
StartReturned(w) ==
    /\ workers[w].pc = "idle" /\ workers[w].op = "start"
    /\ workers[w].err = "ok"

\* Two interleaved starts both returned success for the same session
\* number, each with the code it drew, and one session is stored as active.
BothStartsReturned ==
    /\ ~serialized
    /\ \E w, v \in Workers :
          /\ w # v
          /\ StartReturned(w) /\ StartReturned(v)
          /\ workers[w].session_number = workers[v].session_number
          /\ workers[w].code # workers[v].code
          /\ IsActive(StoredSession)

\* C29 (as claimed): two starts that interleave between the read and the
\* write of the session can both return success (BothStartsReturned is
\* reachable when the calls interleave); with the calls run one at a time,
\* the start that follows a successful start raises "already an active QR
\* session" and stores nothing.
C29_SecondStartFails ==
    \A ri \in RotationIntervals, c1, c2 \in generate_qr_code :
        LET o1 == start_qr_session(class_store, qr_sessions, Owner, ri, c1)
            o2 == start_qr_session(o1.class_store, o1.qr_sessions, Owner, ri, c2)
        IN  o1.last.err = "ok" =>
               /\ o2.last.err = "There is already an active QR session"
               /\ o2.qr_sessions = o1.qr_sessions

\* ------------------------------------------- the numbers of the sessions
\* The session the latest successful start created: the file of the key, or
\* the last document inserted in the collection.
LatestSession ==
    IF qr_sessions = << >> THEN NoSession
    ELSE qr_sessions[Len(qr_sessions)]

\* The latest session recorded a mark: a scan of it succeeded, or its stop
\* swept an actively enrolled, unscanned student of the class absent.
LatestRecordedAMark ==
    \/ ScannedIds(LatestSession) # {}
    \/ /\ LatestSession.status = "stopped"
       /\ ActiveInClass \ ScannedIds(LatestSession) # {}

\* C30 (as claimed): the session_number of a successful start is not below
\* the number of the session the previous successful start created; it is
\* above it whenever that session recorded a mark (a successful scan or a
\* student swept absent), and equal to it only when that session recorded
\* no mark.
C30_NumbersNeverDecrease ==
    qr_sessions # << >> =>
        \A ri \in RotationIntervals, c \in generate_qr_code :
            LET o == start_qr_session(class_store, qr_sessions, Owner, ri, c)
                p == LatestSession.session_number
                n == o.last.session_number
            IN  o.last.err = "ok" =>
                   /\ n >= p
                   /\ LatestRecordedAMark => n > p
                   /\ n = p => ~LatestRecordedAMark

\* ------------------------------------------------ the counts stop returns
\* The student records of the class, by position, whose id has an
\* enrollment with status active.
ActivelyEnrolledRecords ==
    { k \in 1..Len(class_store.students) :
        \E j \in 1..Len(enrollments) :
            /\ enrollments[j].student_record_id = class_store.students[k].id
            /\ enrollments[j].status = "active" }

\* C31: a successful stop returns as scanned_count the number of distinct
\* ids in scanned_students and as absent_count the number of student
\* records of the class that are actively enrolled and not scanned; so the
\* two add up to the number of actively enrolled student records of the
\* class whenever every scanned id is one of them.
C31_StopCounts ==
    IsActive(StoredSession) =>
        LET o == stop_qr_session(class_store, qr_sessions, Owner)
            scanned == { StoredSession.scanned_students[k] :
                           k \in 1..Len(StoredSession.scanned_students) }
            unscanned == { k \in ActivelyEnrolledRecords :
                             class_store.students[k].id \notin scanned }
        IN  o.last.err = "ok" =>
               /\ o.last.scanned_count = Cardinality(scanned)
               /\ o.last.absent_count = Cardinality(unscanned)
               /\ scanned \subseteq
                     { class_store.students[k].id : k \in ActivelyEnrolledRecords }
                     => o.last.scanned_count + o.last.absent_count
                           = Cardinality(ActivelyEnrolledRecords)

\* C31 witness: a stop has just returned scanned_count 1 and absent_count 1
\* for a class with two actively enrolled student records and a third
\* record whose enrollment is dropped.
C31_Witness ==
    /\ last.op = "stop" /\ last.err = "ok"
    /\ last.scanned_count = 1 /\ last.absent_count = 1
    /\ Cardinality(ActivelyEnrolledRecords) = 2
    /\ Len(class_store.students) = 3
    /\ StoredSession.status = "stopped"
    /\ Cardinality(ScannedIds(StoredSession)) = 1

====
